---- MODULE Spec2Model ----
(***************************************************************************)
(* Model of the stdio worker mcp_server.py: the read loop (main_loop), its *)
(* handlers, the identifier allocator (next_user_id) and the gcp_users     *)
(* table with its PRIMARY KEY and UNIQUE constraints.                      *)
(* The client app.py is modelled further down: the recovery of the        *)
(* router's reply, the parameter form, call_mcp and the middle pane.       *)
(*                                                                         *)
(* Text is a sequence of one-character strings, so that strip(), lower(),  *)
(* int(), CAST(.. AS INTEGER), GLOB and the 03d format are computed the    *)
(* way the code computes them.  A JSON value is a tagged record.           *)
(***************************************************************************)
EXTENDS Integers, Sequences, FiniteSets, TLC

\* Number of input lines the model reads before the stream has to end.
MaxRequests == 3

-----------------------------------------------------------------------------
(* Text *)

lower_char(c) == IF c = "A" THEN "a" ELSE IF c = "B" THEN "b" ELSE c

\* str.lower()
lower(s) == [i \in 1..Len(s) |-> lower_char(s[i])]

RECURSIVE lstrip(_)
lstrip(s) == IF s # <<>> /\ Head(s) = " " THEN lstrip(Tail(s)) ELSE s

RECURSIVE rstrip(_)
rstrip(s) ==
  IF s # <<>> /\ s[Len(s)] = " " THEN rstrip(SubSeq(s, 1, Len(s) - 1)) ELSE s

\* str.strip()
strip(s) == rstrip(lstrip(s))

DigitVal == [c \in {"0", "1", "2", "3", "4", "5", "6", "7", "8", "9"} |->
               CASE c = "0" -> 0 [] c = "1" -> 1 [] c = "2" -> 2 [] c = "3" -> 3
                 [] c = "4" -> 4 [] c = "5" -> 5 [] c = "6" -> 6 [] c = "7" -> 7
                 [] c = "8" -> 8 [] c = "9" -> 9]

IsDigit(c) == c \in DOMAIN DigitVal

DigitChar(d) == CHOOSE c \in DOMAIN DigitVal : DigitVal[c] = d

\* value of the longest prefix of digits of s, continuing from acc
RECURSIVE DigitPrefix(_, _)
DigitPrefix(s, acc) ==
  IF s # <<>> /\ IsDigit(Head(s))
  THEN DigitPrefix(Tail(s), 10 * acc + DigitVal[Head(s)])
  ELSE acc

\* SQLite: CAST(text AS INTEGER) takes the longest numeric prefix, 0 if none
CastInteger(s) == DigitPrefix(s, 0)

AllDigits(s) == s # <<>> /\ \A i \in 1..Len(s) : IsDigit(s[i])

\* Python: int(text); IntRaises(text) is the ValueError case
IntRaises(s) == ~AllDigits(s)
int(s) == DigitPrefix(s, 0)

\* decimal digits of n, most significant first
RECURSIVE Decimal(_)
Decimal(n) == IF n < 10 THEN <<DigitChar(n)>>
              ELSE Decimal(n \div 10) \o <<DigitChar(n % 10)>>

RECURSIVE ZeroPad(_, _)
ZeroPad(s, w) == IF Len(s) >= w THEN s ELSE ZeroPad(<<"0">> \o s, w)

\* mutant: the number wraps at the three places of the format
FormatUserId_Wrap(n) == <<"U">> \o ZeroPad(Decimal(n % 1000), 3)

\* f"U{n:03d}"
FormatUserId(n) == <<"U">> \o ZeroPad(Decimal(n), 3)

\* substr(id, 2) and last_id[1:]
substr2(id) == IF Len(id) >= 2 THEN SubSeq(id, 2, Len(id)) ELSE <<>>

\* id GLOB 'U[0-9]*'
GlobUDigit(id) == Len(id) >= 2 /\ id[1] = "U" /\ IsDigit(id[2])

-----------------------------------------------------------------------------
(* JSON values *)

Absent == [t |-> "absent", s |-> <<>>, n |-> 0]
Null == [t |-> "null", s |-> <<>>, n |-> 0]
Str(s) == [t |-> "str", s |-> s, n |-> 0]
Num(n) == [t |-> "num", s |-> <<>>, n |-> n]
Bool(b) == [t |-> "bool", s |-> <<>>, n |-> IF b THEN 1 ELSE 0]

\* Python truth value of a decoded JSON scalar (dict.get gives None if absent)
Truthy(v) ==
  CASE v.t = "str" -> v.s # <<>>
    [] v.t = "num" -> v.n # 0
    [] v.t = "bool" -> v.n = 1
    [] OTHER -> FALSE

\* (params.get(k) or "")
OrEmpty(v) == IF Truthy(v) THEN v ELSE Str(<<>>)

\* (params.get(k) or "").strip() raises AttributeError unless it is a str
StripRaises(v) == OrEmpty(v).t # "str"
\* mutant: the value is taken without .strip()
Stripped_NoStrip(v) == OrEmpty(v).s

Stripped(v) == strip(OrEmpty(v).s)

-----------------------------------------------------------------------------
(* The gcp_users table *)

\* a row of gcp_users
Row(id, name, email, role, created_at) ==
  [id |-> id, name |-> name, email |-> email, role |-> role,
   created_at |-> created_at]

\* mutant: the UNIQUE constraint on email is missing
InsertViolates_IdOnly(st, row) == \E r \in st : r.id = row.id

\* INSERT: id TEXT PRIMARY KEY, email TEXT NOT NULL UNIQUE
InsertViolates(st, row) ==
  \E r \in st : r.id = row.id \/ r.email = row.email

\* mutant: the WHERE clause is missing
WhereId_All(st, uid) == st

\* the rows selected by WHERE id = ?
WhereId(st, uid) == {r \in st : r.id = uid}

\* mutant: every column is in the SET list, supplied or not
UpdatedRow_Overwrite(r, set_) ==
  [r EXCEPT !.name = set_.name, !.email = set_.email, !.role = set_.role]

\* UPDATE gcp_users SET <fields> WHERE id = ?  with set_[k] the new value of
\* column k, or <<>> when the column is not in the SET list
UpdatedRow(r, set_) ==
  [r EXCEPT !.name = IF set_.name # <<>> THEN set_.name ELSE @,
            !.email = IF set_.email # <<>> THEN set_.email ELSE @,
            !.role = IF set_.role # <<>> THEN set_.role ELSE @]

UpdateResult(st, uid, set_) ==
  (st \ WhereId(st, uid)) \cup {UpdatedRow(r, set_) : r \in WhereId(st, uid)}

\* mutant: the UPDATE statement does not check the UNIQUE constraint
UpdateViolates_Never(st, uid, set_) == FALSE

\* the UNIQUE constraint on email as the UPDATE statement checks it
UpdateViolates(st, uid, set_) ==
  \E r \in WhereId(st, uid) :
    \E o \in st : o # r /\ o.email = UpdatedRow(r, set_).email

\* ORDER BY CAST(substr(id, 2) AS INTEGER)
IdOrder(id) == CastInteger(substr2(id))

-----------------------------------------------------------------------------
(* Identifier allocation *)

\* mutant: ORDER BY ... ASC, the least matching id comes first
LastIds_Least(st) ==
  LET m == {r.id : r \in {x \in st : GlobUDigit(x.id)}}
  IN {i \in m : \A j \in m : IdOrder(i) <= IdOrder(j)}

\* The ids the SELECT of next_user_id can return as its first row: the
\* matching ids of greatest CAST value (SQL leaves the order of ties open).
LastIds(st) ==
  LET m == {r.id : r \in {x \in st : GlobUDigit(x.id)}}
  IN {i \in m : \A j \in m : IdOrder(j) <= IdOrder(i)}

\* mutant: the numeric part is decreased, not increased
NextOf_Minus(last_id) ==
  IF IntRaises(substr2(last_id)) THEN FormatUserId(1)
  ELSE FormatUserId(int(substr2(last_id)) - 1)

NextOf(last_id) ==
  IF IntRaises(substr2(last_id)) THEN FormatUserId(1)
  ELSE FormatUserId(int(substr2(last_id)) + 1)

\* the set of ids next_user_id(cur) can return on table st
next_user_id(st) ==
  IF LastIds(st) = {} THEN {FormatUserId(1)}
  ELSE {NextOf(i) : i \in LastIds(st)}

-----------------------------------------------------------------------------
(* Handlers.  A handler yields an outcome: either it raises (nothing in    *)
(* main_loop catches it), or it returns a response dict and leaves the     *)
(* table st and some number of connections it did not close.               *)

Keys == {"id", "name", "email", "role", "to", "subject", "body"}

NoResult == [shape |-> "none", recs |-> <<>>, message |-> ""]
Result(shape, recs, message) ==
  [shape |-> shape, recs |-> recs, message |-> message]

\* mutant: the error dict has a result key as well
ErrorDict_Both(msg, arg) ==
  [keys |-> {"error", "result"}, error |-> <<msg, arg>>, result |-> NoResult]

ErrorDict(msg, arg) ==
  [keys |-> {"error"}, error |-> <<msg, arg>>, result |-> NoResult]
ResultDict(res) ==
  [keys |-> {"result"}, error |-> <<"", "">>, result |-> res]

Raised(st) == [raised |-> TRUE, resp |-> ErrorDict("", ""), store |-> st,
               unclosed |-> 0]
Returned(resp, st, unclosed) ==
  [raised |-> FALSE, resp |-> resp, store |-> st, unclosed |-> unclosed]

\* params.get(k): params is the value main_loop passes to the handler
GetRaises(params) == ~params.dict
Get(params, k) == params.f[k]

\* mutant: the email returned is not the lowercased one that is stored
handle_add_user_RawEmail(params, st, now) ==
  IF GetRaises(params) \/ StripRaises(Get(params, "name"))
     \/ StripRaises(Get(params, "email")) \/ StripRaises(Get(params, "role"))
  THEN {Raised(st)}
  ELSE
    LET name == Stripped(Get(params, "name"))
        email == lower(Stripped(Get(params, "email")))
        role == Stripped(Get(params, "role"))
    IN IF name = <<>> \/ email = <<>> \/ role = <<>>
       THEN {Returned(ErrorDict("name, email and role are required", ""),
                      st, 0)}
       ELSE {LET row == Row(user_id, name, email, role, now)
                 raw == Row(user_id, name, Stripped(Get(params, "email")),
                            role, now)
             IN IF InsertViolates(st, row)
                THEN Returned(ErrorDict(
                       "DB insert error (likely duplicate email): ", ""),
                       st, 0)
                ELSE Returned(ResultDict(Result("record", <<raw>>, "")),
                              st \cup {row}, 0)
             : user_id \in next_user_id(st)}

handle_add_user(params, st, now) ==
  IF GetRaises(params) \/ StripRaises(Get(params, "name"))
     \/ StripRaises(Get(params, "email")) \/ StripRaises(Get(params, "role"))
  THEN {Raised(st)}
  ELSE
    LET name == Stripped(Get(params, "name"))
        email == lower(Stripped(Get(params, "email")))
        role == Stripped(Get(params, "role"))
    IN IF name = <<>> \/ email = <<>> \/ role = <<>>
       THEN {Returned(ErrorDict("name, email and role are required", ""),
                      st, 0)}
       ELSE {LET row == Row(user_id, name, email, role, now)
             IN IF InsertViolates(st, row)
                THEN Returned(ErrorDict(
                       "DB insert error (likely duplicate email): ", ""),
                       st, 0)
                ELSE Returned(ResultDict(Result("record", <<row>>, "")),
                              st \cup {row}, 0)
             : user_id \in next_user_id(st)}

\* mutant: ORDER BY ... DESC
RECURSIVE OrderedRows_Desc(_)
OrderedRows_Desc(st) ==
  IF st = {} THEN {<<>>}
  ELSE UNION {{<<r>> \o t : t \in OrderedRows_Desc(st \ {r})} :
              r \in {x \in st : \A y \in st : IdOrder(y.id) <= IdOrder(x.id)}}

\* the orders in which ORDER BY CAST(substr(id, 2) AS INTEGER) ASC can
\* deliver the rows of st
RECURSIVE OrderedRows(_)
OrderedRows(st) ==
  IF st = {} THEN {<<>>}
  ELSE UNION {{<<r>> \o t : t \in OrderedRows(st \ {r})} :
              r \in {x \in st : \A y \in st : IdOrder(x.id) <= IdOrder(y.id)}}

handle_list_users(params, st) ==
  {Returned(ResultDict(Result("users", rows, "")), st, 0) :
     rows \in OrderedRows(st)}

handle_get_user(params, st) ==
  IF GetRaises(params) \/ StripRaises(Get(params, "id")) THEN {Raised(st)}
  ELSE
    LET uid == Stripped(Get(params, "id"))
    IN IF uid = <<>> THEN {Returned(ErrorDict("id is required", ""), st, 0)}
       ELSE IF WhereId(st, uid) = {}
       THEN {Returned(ResultDict(Result("empty", <<>>, "")), st, 0)}
       ELSE {Returned(ResultDict(Result("user", <<row>>, "")), st, 0) :
               row \in WhereId(st, uid)}

handle_update_user(params, st) ==
  IF GetRaises(params) \/ StripRaises(Get(params, "id"))
     \/ StripRaises(Get(params, "name")) \/ StripRaises(Get(params, "email"))
     \/ StripRaises(Get(params, "role"))
  THEN {Raised(st)}
  ELSE
    LET user_id == Stripped(Get(params, "id"))
        set_ == [name |-> Stripped(Get(params, "name")),
                 email |-> Stripped(Get(params, "email")),
                 role |-> Stripped(Get(params, "role"))]
    IN IF user_id = <<>>
       THEN {Returned(ErrorDict("id is required", ""), st, 0)}
       ELSE IF set_.name = <<>> /\ set_.email = <<>> /\ set_.role = <<>>
       THEN {Returned(ErrorDict(
               "At least one field (name/email/role) is required to update",
               ""), st, 0)}
       ELSE IF UpdateViolates(st, user_id, set_)
       THEN {Returned(ErrorDict(
               "DB update error (likely duplicate email): ", ""), st, 0)}
       ELSE IF WhereId(st, user_id) = {}
       THEN {Returned(ErrorDict("No user found with this ID", ""), st, 1)}
       ELSE {Returned(ResultDict(Result("message", <<>>,
               "User updated successfully")),
               UpdateResult(st, user_id, set_), 0)}

handle_delete_user(params, st) ==
  IF GetRaises(params) \/ StripRaises(Get(params, "id")) THEN {Raised(st)}
  ELSE
    LET user_id == Stripped(Get(params, "id"))
    IN IF user_id = <<>>
       THEN {Returned(ErrorDict("id is required", ""), st, 0)}
       ELSE IF WhereId(st, user_id) = {}
       THEN {Returned(ErrorDict("No user found with this ID", ""), st, 1)}
       ELSE {Returned(ResultDict(Result("message", <<>>,
               "User deleted successfully")),
               st \ WhereId(st, user_id), 0)}

PreviewLen == 50

\* body[:50] + ("..." if len(body) > 50 else "")
Preview(body) ==
  IF Len(body) > PreviewLen
  THEN SubSeq(body, 1, PreviewLen) \o <<".", ".", ".">>
  ELSE body

handle_send_email(params, st) ==
  IF GetRaises(params) \/ StripRaises(Get(params, "to"))
     \/ StripRaises(Get(params, "subject")) \/ StripRaises(Get(params, "body"))
  THEN {Raised(st)}
  ELSE
    LET to == Stripped(Get(params, "to"))
        subject == Stripped(Get(params, "subject"))
        body == Stripped(Get(params, "body"))
    IN IF to = <<>> \/ subject = <<>> \/ body = <<>>
       THEN {Returned(ErrorDict("to, subject and body are required", ""),
                      st, 0)}
       ELSE {Returned(ResultDict(Result("email", <<to, subject, Preview(body)>>,
               "Email successfully sent to ")), st, 0)}

\* the catalog: name and required fields of each entry
Tools ==
  << [name |-> "add_user", required |-> <<"name", "email", "role">>],
     [name |-> "list_users", required |-> <<>>],
     [name |-> "get_user", required |-> <<"id">>],
     [name |-> "update_user", required |-> <<"id">>],
     [name |-> "delete_user", required |-> <<"id">>],
     [name |-> "send_email", required |-> <<"to", "subject", "body">>] >>

handle_list_tools(params, st) ==
  {Returned(ResultDict(Result("tools", Tools, "")), st, 0)}

-----------------------------------------------------------------------------
(* Input lines *)

U001 == <<"U", "0", "0", "1">>
U002 == <<"U", "0", "0", "2">>
U003 == <<"U", "0", "0", "3">>

NoFields == [k \in Keys |-> Absent]

Fields(id, name, email, role) ==
  [k \in Keys |-> CASE k = "id" -> id [] k = "name" -> name
                    [] k = "email" -> email [] k = "role" -> role
                    [] OTHER -> Absent]

MailFields(to, subject, body) ==
  [k \in Keys |-> CASE k = "to" -> to [] k = "subject" -> subject
                    [] k = "body" -> body [] OTHER -> Absent]

\* the value of the "params" key: a JSON object with fields f, no key at
\* all, or a JSON value of another type that Python takes as true or false
Object(f) == [t |-> "obj", truthy |-> f # NoFields, f |-> f]
NoParams == [t |-> "absent", truthy |-> FALSE, f |-> NoFields]
Other(t, truthy) == [t |-> t, truthy |-> truthy, f |-> NoFields]

Method(name) == [t |-> "str", name |-> name]
NoMethod == [t |-> "absent", name |-> "None"]

\* a line that decodes to a JSON object
Message(id, method, params) ==
  [t |-> "obj", id |-> id, method |-> method, params |-> params]
\* a line that decodes to a JSON array, string, number or null
NonObject(t) ==
  [t |-> t, id |-> Absent, method |-> NoMethod, params |-> NoParams]
NoRequest == NonObject("none")

AddNames == {Str(<<"a">>), Str(<<" ">>), Num(5)}
AddEmails == {Absent, Str(<<"a">>), Str(<<"A", " ">>), Str(<<"b">>),
              Str(<<"c">>), Bool(TRUE)}
AddRoles == {Str(<<"r">>), Null, Num(0)}
UpdIds == {Absent, Str(U001), Str(<<" ">> \o U002), Num(7)}
UpdNames == {Absent, Str(<<"b", " ">>)}
UpdEmails == {Absent, Str(<<"a">>), Str(<<"A">>), Bool(TRUE)}
UpdRoles == {Absent, Str(<<"s">>), Str(<<" ">>)}
GetIds == {Absent, Str(<<>>), Str(U001), Str(<<" ">> \o U002), Str(U003),
           Num(7), Bool(TRUE)}
MailTos == {Absent, Str(<<"a">>), Num(5)}
MailBodies == {Str(<<"b">>), Str(<<" ">>)}
OtherParams == {NoParams, Object(NoFields), Other("str", TRUE),
                Other("arr", FALSE)}
Tokens == {Num(1), Absent}

ParamsOf(name) ==
  CASE name = "add_user" ->
         {Object(Fields(Absent, n, e, r)) :
            n \in AddNames, e \in AddEmails, r \in AddRoles}
    [] name = "update_user" ->
         {Object(Fields(i, n, e, r)) :
            i \in UpdIds, n \in UpdNames, e \in UpdEmails, r \in UpdRoles}
    [] name \in {"get_user", "delete_user"} ->
         {Object(Fields(i, Absent, Absent, Absent)) : i \in GetIds}
    [] name = "send_email" ->
         {Object(MailFields(to, Str(<<"s">>), b)) :
            to \in MailTos, b \in MailBodies}
    [] OTHER -> {}

MethodNames == {"add_user", "list_users", "get_user", "update_user",
                "delete_user", "list_tools", "send_email", "ping", "bogus"}

\* the decoded values of the lines the model feeds to the worker
Messages ==
  {Message(id, m, p) :
     id \in Tokens,
     m \in {Method(n) : n \in MethodNames} \cup {NoMethod},
     p \in OtherParams}
  \cup UNION {{Message(id, Method(n), p) : id \in Tokens, p \in ParamsOf(n)} :
              n \in MethodNames}
  \cup {NonObject(t) : t \in {"arr", "str", "num", "null"}}

-----------------------------------------------------------------------------
(* main_loop *)

VARIABLES
  store,     \* the rows of gcp_users
  pc,        \* "read": at the top of the for loop; "dispatch": a line was
             \* decoded; "crashed": an exception left main_loop; "eof"
  req,       \* the decoded line being dispatched, or the last one
  resp,      \* the last object given to send_response
  nread,     \* lines read from stdin; also the clock of created_at
  nasked,    \* non-blank lines read
  nwritten,  \* lines written to stdout
  unclosed,  \* connections opened and not closed by their handler
  issued,    \* history: the ids returned by successful add_user calls
  run,       \* history: how many of the last entries of issued come from
             \* add_user calls with no other line in between
  input,     \* the argument of a function applied on its own (a table that
             \* is already filled, the text the router returned)
  output,    \* what the function applied to input gave
  cpc,       \* the client (app.py): "idle" between two script runs, or
             \* where call_mcp stands: "poll", "write", "readline"
  caller,    \* what called call_mcp: "fetch_tools", "form", "show_all",
             \* "show_single"
  payload,   \* the request call_mcp sends
  reply,     \* the text the router will return in this script run
  tools,     \* st.session_state.tools: the names of the discovered catalog
  stage,     \* st.session_state["stage"]
  route,     \* st.session_state["route"]
  nsent,     \* lines the client wrote to the worker's stdin
  ngot,      \* lines the client read from the worker's stdout
  last       \* st.session_state["last_mcp_response"]

client == <<cpc, caller, payload, reply, tools, stage, route, nsent, ngot,
            last>>

vars == <<store, pc, req, resp, nread, nasked, nwritten, unclosed, issued,
          run, input, output, client>>

\* no function has been applied
NoOutput == [op |-> "none"]

NoResponse == [keys |-> {}, id |-> Absent, method |-> NoMethod,
               error |-> <<"", "">>, result |-> NoResult]

\* the worker right after init_db on a new database file
Started ==
  /\ store = {}
  /\ pc = "read"
  /\ req = NoRequest
  /\ resp = NoResponse
  /\ nread = 0
  /\ nasked = 0
  /\ nwritten = 0
  /\ unclosed = 0
  /\ issued = <<>>
  /\ run = 0

\* no client: the worker is fed lines on its own
NoClient ==
  /\ cpc = "none"
  /\ caller = "none"
  /\ payload = <<>>
  /\ reply = <<>>
  /\ tools = {}
  /\ stage = "none"
  /\ route = <<>>
  /\ nsent = 0
  /\ ngot = 0
  /\ last = <<>>

Init ==
  /\ Started
  /\ input = <<>>
  /\ output = NoOutput
  /\ NoClient

\* params = req.get("params", {}) or {}
ParamsOrEmpty(p) ==
  IF p.t = "obj" THEN [dict |-> TRUE, f |-> p.f]
  ELSE [dict |-> ~p.truthy, f |-> NoFields]

\* {"id": req.get("id"), "method": method, **resp}
Response(r, d) ==
  [keys |-> {"id", "method"} \cup d.keys, id |-> r.id, method |-> r.method,
   error |-> d.error, result |-> d.result]

\* for line in sys.stdin: an empty line after strip() is skipped
ReadBlank ==
  /\ pc = "read" /\ nread < MaxRequests
  /\ nread' = nread + 1
  /\ UNCHANGED <<store, pc, req, resp, nasked, nwritten, unclosed, issued, run,
               input, output, client>>

\* mutant: no except clause around json.loads
ReadInvalid_Stop ==
  /\ pc = "read" /\ nread < MaxRequests
  /\ nread' = nread + 1
  /\ nasked' = nasked + 1
  /\ req' = NoRequest
  /\ pc' = "crashed"
  /\ UNCHANGED <<store, resp, nwritten, unclosed, issued, run, input, output,
                 client>>

\* json.loads raises: one error response without id and method
ReadInvalid ==
  /\ pc = "read" /\ nread < MaxRequests
  /\ nread' = nread + 1
  /\ nasked' = nasked + 1
  /\ req' = NoRequest
  /\ resp' = [NoResponse EXCEPT !.keys = {"error"},
                                !.error = <<"invalid json: ", "">>]
  /\ nwritten' = nwritten + 1
  /\ run' = 0
  /\ UNCHANGED <<store, pc, unclosed, issued, input, output, client>>

\* json.loads succeeds
ReadRequest ==
  /\ pc = "read" /\ nread < MaxRequests
  /\ \E m \in Messages : req' = m
  /\ nread' = nread + 1
  /\ nasked' = nasked + 1
  /\ pc' = "dispatch"
  /\ UNCHANGED <<store, resp, nwritten, unclosed, issued, run, input, output,
                 client>>

EndOfStream ==
  /\ pc = "read"
  /\ pc' = "eof"
  /\ UNCHANGED <<store, req, resp, nread, nasked, nwritten, unclosed, issued,
               run, input, output, client>>

\* an exception nothing catches ends main_loop and the process
Crash ==
  /\ pc' = "crashed"
  /\ UNCHANGED <<store, req, resp, nread, nasked, nwritten, unclosed, issued,
               run, input, output, client>>

\* the id a returned add_user response carries, as a sequence of 0 or 1 ids
Allocated(r, d) ==
  IF r.method = Method("add_user") /\ "result" \in d.keys
  THEN <<d.result.recs[1].id>> ELSE <<>>

\* the handler returned o.resp: send_response and go on to the next line
Respond(o) ==
  /\ store' = o.store
  /\ issued' = issued \o Allocated(req, o.resp)
  /\ run' = IF Allocated(req, o.resp) = <<>> THEN 0 ELSE run + 1
  /\ unclosed' = unclosed + o.unclosed
  /\ resp' = Response(req, o.resp)
  /\ nwritten' = nwritten + 1
  /\ pc' = "read"
  /\ UNCHANGED <<req, nread, nasked, input, output, client>>

Finish(outcomes) == \E o \in outcomes : IF o.raised THEN Crash ELSE Respond(o)

Dispatching(name) ==
  pc = "dispatch" /\ req.t = "obj" /\ req.method = Method(name)

\* req.get("method") on a list, str, int or None raises AttributeError
DispatchNonObject == pc = "dispatch" /\ req.t # "obj" /\ Crash

AddUser ==
  Dispatching("add_user")
  /\ Finish(handle_add_user(ParamsOrEmpty(req.params), store, nread))

ListUsers ==
  Dispatching("list_users")
  /\ Finish(handle_list_users(ParamsOrEmpty(req.params), store))

GetUser ==
  Dispatching("get_user")
  /\ Finish(handle_get_user(ParamsOrEmpty(req.params), store))

UpdateUser ==
  Dispatching("update_user")
  /\ Finish(handle_update_user(ParamsOrEmpty(req.params), store))

DeleteUser ==
  Dispatching("delete_user")
  /\ Finish(handle_delete_user(ParamsOrEmpty(req.params), store))

ListTools ==
  Dispatching("list_tools")
  /\ Finish(handle_list_tools(ParamsOrEmpty(req.params), store))

SendEmail ==
  Dispatching("send_email")
  /\ Finish(handle_send_email(ParamsOrEmpty(req.params), store))

Ping ==
  Dispatching("ping")
  /\ Respond(Returned(ResultDict(Result("ok", <<>>, "")), store, 0))

Registered == {"add_user", "list_users", "get_user", "update_user",
               "delete_user", "list_tools", "send_email", "ping"}

\* mutant: an unregistered method is skipped without a response
UnknownMethod_Silent ==
  /\ pc = "dispatch" /\ req.t = "obj"
  /\ ~(req.method.t = "str" /\ req.method.name \in Registered)
  /\ pc' = "read"
  /\ UNCHANGED <<store, req, resp, nread, nasked, nwritten, unclosed,
                 issued, run, input, output, client>>

UnknownMethod ==
  /\ pc = "dispatch" /\ req.t = "obj"
  /\ ~(req.method.t = "str" /\ req.method.name \in Registered)
  /\ Respond(Returned(ErrorDict("unknown method: ", req.method.name),
                      store, 0))

Next ==
  \/ ReadBlank \/ ReadInvalid \/ ReadRequest \/ EndOfStream
  \/ DispatchNonObject
  \/ AddUser \/ ListUsers \/ GetUser \/ UpdateUser \/ DeleteUser
  \/ ListTools \/ SendEmail \/ Ping \/ UnknownMethod

Spec == Init /\ [][Next]_vars

-----------------------------------------------------------------------------
(* Properties *)

Handlers == {"add_user", "get_user", "update_user", "delete_user",
             "send_email"}

\* the line read last was a request and resp is the response to it
Answered == pc = "read" /\ req.t = "obj" /\ nwritten > 0

IsError(r) == "error" \in r.keys /\ "result" \notin r.keys
IsResult(r) == "result" \in r.keys /\ "error" \notin r.keys

\* C1: every non-blank line read has got its response by the time the loop
\* is back at the read, and at any other time only the line being dispatched
\* is without one; the response carries the id and method of that line.
C1_OneResponsePerRequest ==
  /\ pc = "dispatch" => nwritten = nasked - 1
  /\ pc # "dispatch" => nwritten = nasked
  /\ Answered => resp.id = req.id /\ resp.method = req.method

\* C2: the read loop is only ever left at end of stream, whatever the lines
\* decoded to.
C2_StopsOnlyAtEof == pc \in {"read", "dispatch", "eof"}

\* C3: a request for one of the five handlers, with an argument object of
\* any content, never ends the loop: the failure comes back as a response.
C3_HandlerFailureCaught ==
  (req.t = "obj" /\ req.method.name \in Handlers /\ req.params.t = "obj")
    => pc # "crashed"

\* the argument k of the request at hand
Arg(k) == req.params.f[k]

\* the id the response at hand returned for add_user, none if it did not
NewIds == IF Answered THEN Allocated(req, resp) ELSE <<>>

ValidAdd ==
  /\ req.t = "obj" /\ req.method = Method("add_user") /\ req.params.t = "obj"
  /\ \A k \in {"name", "email", "role"} :
       Arg(k).t = "str" /\ strip(Arg(k).s) # <<>>

\* the email of the request at hand as the store identifies it
NormEmail == lower(strip(Arg("email").s))

\* the ids of the run of add_user calls that ends with the last allocation
RunIds == SubSeq(issued, Len(issued) - run + 1, Len(issued))

\* C5: the ids returned by valid add_user calls that follow one another are
\* strictly increasing in numeric order and pairwise distinct, and a valid
\* add_user whose email no live record holds succeeds.
C5_RunIncreasing ==
  /\ [](\A i, j \in 1..Len(RunIds) :
          i < j => /\ IdOrder(RunIds[i]) < IdOrder(RunIds[j])
                   /\ RunIds[i] # RunIds[j])
  /\ [][(pc = "dispatch" /\ ValidAdd
         /\ \A r \in store : r.email # NormEmail)
        => (pc' = "read" /\ IsResult(resp') /\ run' = run + 1
            /\ Len(issued') = Len(issued) + 1)]_vars

\* three add_user calls in a row have been answered with an id each
C5_Witness == run = 3 /\ Cardinality(store) = 3

\* C6: every stored email equals its own lowercase form.
C6_EmailsLowercased == \A r \in store : r.email = lower(r.email)

DuplicateEmailError == "DB insert error (likely duplicate email): "

\* C7: no two live records share an email or an id; an add_user whose
\* lowercased email belongs to a live record gets an error response (the
\* duplicate error when name and role are valid) and the store is unchanged.
C7_UniqueEmailAndId ==
  /\ [](\A r1, r2 \in store :
          (r1.email = r2.email \/ r1.id = r2.id) => r1 = r2)
  /\ [][(pc = "dispatch" /\ req.t = "obj" /\ req.method = Method("add_user")
         /\ req.params.t = "obj" /\ Arg("email").t = "str"
         /\ ~StripRaises(Arg("name")) /\ ~StripRaises(Arg("role"))
         /\ \E r \in store : r.email = NormEmail)
        => (/\ pc' = "read" /\ IsError(resp') /\ store' = store
            /\ ValidAdd => resp'.error[1] = DuplicateEmailError)]_vars

\* a valid add_user was refused because a live record holds its email
C7_Witness ==
  /\ Answered /\ ValidAdd
  /\ IsError(resp) /\ resp.error[1] = DuplicateEmailError
  /\ \E r \in store : r.email = NormEmail

\* update_user arguments that reach the UPDATE statement
UpdateArgsAreText ==
  /\ req.t = "obj" /\ req.method = Method("update_user")
  /\ req.params.t = "obj"
  /\ \A k \in {"id", "name", "email", "role"} : ~StripRaises(Arg(k))

\* the argument k is supplied and not empty after trimming
Supplied(k) == Arg(k).t = "str" /\ strip(Arg(k).s) # <<>>

DuplicateUpdateError == "DB update error (likely duplicate email): "

\* the update_user at hand names a live record and an email that another
\* live record holds
UpdateToTakenEmail ==
  /\ UpdateArgsAreText /\ Supplied("id") /\ Supplied("email")
  /\ \E r \in store : r.id = strip(Arg("id").s)
  /\ \E o \in store :
       o.id # strip(Arg("id").s) /\ o.email = strip(Arg("email").s)

\* C8: update_user with an email that another record holds returns the
\* duplicate error and changes no record, whatever name or role came along.
C8_ConflictChangesNothing ==
  [][(pc = "dispatch" /\ UpdateToTakenEmail)
     => (pc' = "read" /\ IsError(resp')
         /\ resp'.error[1] = DuplicateUpdateError /\ store' = store)]_vars

\* such an update_user, with a new name as well, has been answered
C8_Witness ==
  /\ Answered /\ UpdateToTakenEmail /\ Supplied("name")
  /\ resp.error[1] = DuplicateUpdateError

\* the value update_user is to leave in column k of row r
Expected(r, k) == IF Supplied(k) THEN strip(Arg(k).s) ELSE r[k]

\* C9: a successful update_user replaces the record with the given id by one
\* with the supplied non-empty (trimmed) fields overwritten and name, email,
\* role not supplied, id and created_at kept; all other records stay.
C9_UpdateFrame ==
  [][(pc = "dispatch" /\ req.t = "obj" /\ req.method = Method("update_user")
      /\ pc' = "read" /\ IsResult(resp'))
     => \E r \in store :
          /\ r.id = strip(Arg("id").s)
          /\ store' = (store \ {r}) \cup
                      {Row(r.id, Expected(r, "name"), Expected(r, "email"),
                           Expected(r, "role"), r.created_at)}
          /\ \A o \in store : o # r => o \in store'
          /\ Cardinality(store') = Cardinality(store)]_vars

\* an update_user with some but not all fields succeeded beside another record
C9_Witness ==
  /\ Answered /\ req.method = Method("update_user") /\ IsResult(resp)
  /\ Cardinality(store) >= 2
  /\ \E k \in {"name", "email", "role"} : Supplied(k)
  /\ \E k \in {"name", "email", "role"} : ~Supplied(k)

\* the request at hand carries a non-empty id that no record has
IdOfNoRecord ==
  /\ req.t = "obj" /\ req.params.t = "obj" /\ Supplied("id")
  /\ \A r \in store : r.id # strip(Arg("id").s)

\* C10: for an id no record has, get_user answers with an empty result and
\* no error key, update_user and delete_user answer with an error, and the
\* store is unchanged in all three.
C10_NotFound ==
  [][(pc = "dispatch" /\ IdOfNoRecord)
     => /\ req.method = Method("get_user")
           => (pc' = "read" /\ IsResult(resp') /\ store' = store
               /\ resp'.result = Result("empty", <<>>, ""))
        /\ req.method = Method("delete_user")
           => (pc' = "read" /\ IsError(resp') /\ store' = store)
        /\ (req.method = Method("update_user") /\ UpdateArgsAreText)
           => (pc' = "read" /\ IsError(resp') /\ store' = store)]_vars

\* get_user was answered with an empty result while records are stored
C10_Witness ==
  /\ Answered /\ req.method = Method("get_user") /\ IdOfNoRecord
  /\ IsResult(resp) /\ resp.result.shape = "empty"
  /\ store # {}

-----------------------------------------------------------------------------
(* route_with_llm (app.py): the text the router returned, as a sequence of *)
(* tokens.  A key token stands for a quoted key and its colon, a quoted    *)
(* token for a string literal, "1" for a number, "Sure" for a word that    *)
(* is not JSON.                                                            *)

KeyTokens == {"tool:", "params:", "name:"}
StringTokens == {"'add_user'", "'unknown'", "'nope'", "'Ann'", "'list_users'",
                 "'delete_user'"}
NumberTokens == {"1"}

KeyOf(tok) == CASE tok = "tool:" -> "tool" [] tok = "params:" -> "params"
                [] tok = "name:" -> "name"

\* decoded JSON: a string, a number, an array of n elements, or an object
\* with members m
JString(tok) == [t |-> "str", s |-> tok, m |-> <<>>]
JNumber == [t |-> "num", s |-> "", m |-> <<>>]
JArray(n) == [t |-> "arr", s |-> "", m |-> <<>>, n |-> n]
JObject(m) == [t |-> "obj", s |-> "", m |-> m]
NoMembers == [k \in {} |-> JNumber]

\* a later member replaces an earlier one of the same key
WithMember(m, k, v) ==
  [x \in DOMAIN m \cup {k} |-> IF x = k THEN v ELSE m[x]]

Failed == [ok |-> FALSE, v |-> JNumber, rest |-> <<>>]
Parsed(v, rest) == [ok |-> TRUE, v |-> v, rest |-> rest]

RECURSIVE ParseValue(_)
RECURSIVE ParseElements(_)
RECURSIVE ParseMembers(_, _)

\* one JSON value at the head of s
ParseValue(s) ==
  IF s = <<>> THEN Failed
  ELSE IF Head(s) \in StringTokens THEN Parsed(JString(Head(s)), Tail(s))
  ELSE IF Head(s) \in NumberTokens THEN Parsed(JNumber, Tail(s))
  ELSE IF Head(s) = "["
  THEN IF Tail(s) # <<>> /\ Head(Tail(s)) = "]"
       THEN Parsed(JArray(0), Tail(Tail(s)))
       ELSE ParseElements(Tail(s))
  ELSE IF Head(s) = "{"
  THEN IF Tail(s) # <<>> /\ Head(Tail(s)) = "}"
       THEN Parsed(JObject(NoMembers), Tail(Tail(s)))
       ELSE ParseMembers(Tail(s), NoMembers)
  ELSE Failed

\* value ("," value)* "]"
ParseElements(s) ==
  LET e == ParseValue(s)
  IN IF ~e.ok \/ e.rest = <<>> THEN Failed
     ELSE IF Head(e.rest) = "]" THEN Parsed(JArray(1), Tail(e.rest))
     ELSE IF Head(e.rest) = ","
     THEN LET more == ParseElements(Tail(e.rest))
          IN IF more.ok THEN Parsed(JArray(more.v.n + 1), more.rest)
             ELSE Failed
     ELSE Failed

\* key value ("," key value)* "}"
ParseMembers(s, m) ==
  IF s = <<>> \/ Head(s) \notin KeyTokens THEN Failed
  ELSE LET e == ParseValue(Tail(s))
       IN IF ~e.ok \/ e.rest = <<>> THEN Failed
          ELSE LET m2 == WithMember(m, KeyOf(Head(s)), e.v)
               IN IF Head(e.rest) = "}"
                  THEN Parsed(JObject(m2), Tail(e.rest))
                  ELSE IF Head(e.rest) = ","
                  THEN ParseMembers(Tail(e.rest), m2)
                  ELSE Failed

\* json.loads(text): it raises unless the whole text is one value
LoadsRaises(text) == ~ParseValue(text).ok \/ ParseValue(text).rest # <<>>
json_loads(text) == ParseValue(text).v

\* content.find("{") and content.rfind("}"), counted from 1; 0 for -1
find(text, tok) ==
  IF \E i \in 1..Len(text) : text[i] = tok
  THEN CHOOSE i \in 1..Len(text) :
         text[i] = tok /\ \A j \in 1..(i - 1) : text[j] # tok
  ELSE 0
rfind(text, tok) ==
  IF \E i \in 1..Len(text) : text[i] = tok
  THEN CHOOSE i \in 1..Len(text) :
         text[i] = tok /\ \A j \in (i + 1)..Len(text) : text[j] # tok
  ELSE 0

\* {"tool": "unknown", "params": {}}
Sentinel ==
  JObject(WithMember(WithMember(NoMembers, "tool", JString("'unknown'")),
                     "params", JObject(NoMembers)))

\* the three ways of lines 179-189 to give parsed a value
Recover(content) ==
  IF ~LoadsRaises(content) THEN json_loads(content)
  ELSE LET start == find(content, "{")
           end == rfind(content, "}")
       IN IF start # 0 /\ end # 0 /\ end > start
          THEN IF ~LoadsRaises(SubSeq(content, start, end))
               THEN json_loads(SubSeq(content, start, end))
               ELSE Sentinel
          ELSE Sentinel

\* route_with_llm from the router's reply on: parsed.get("tool") raises
\* AttributeError when parsed is not a dict, else parsed is returned
route_with_llm(content) ==
  IF Recover(content).t # "obj"
  THEN [op |-> "route_with_llm", raised |-> TRUE, parsed |-> Sentinel]
  ELSE [op |-> "route_with_llm", raised |-> FALSE,
        parsed |-> Recover(content)]

\* replies of the router
Proposal ==
  <<"{", "tool:", "'add_user'", ",", "params:", "{", "name:", "'Ann'", "}",
    "}">>
Replies ==
  {Proposal,
   <<"{", "tool:", "'nope'", ",", "params:", "{", "}", "}">>,
   <<"{", "tool:", "'unknown'", ",", "params:", "{", "}", "}">>,
   <<"{", "tool:", "1", "}">>,
   <<"{", "params:", "{", "}", "}">>,
   <<"{", "}">>,
   <<"{", "tool:", "'add_user'">>,
   <<"{", "tool:", "}">>,
   <<"[", "]">>,
   <<"[", "1", ",", "'Ann'", "]">>,
   <<"[", "{", "tool:", "'add_user'", "}", "]">>,
   <<"'add_user'">>,
   <<"1">>,
   <<"Sure">>,
   <<>>}
Before == {<<>>, <<"Sure">>, <<"Sure", "{">>, <<"}">>}
After == {<<>>, <<"Sure">>, <<"}">>, <<"Sure", "{", "}">>}
Contents == {b \o r \o a : b \in Before, r \in Replies, a \in After}

InitRoute ==
  /\ Started
  /\ input \in Contents
  /\ output = NoOutput
  /\ NoClient

RouteWithLlm ==
  /\ output = NoOutput
  /\ output' = route_with_llm(input)
  /\ UNCHANGED <<store, pc, req, resp, nread, nasked, nwritten, unclosed,
                 issued, run, input, client>>

NextRoute == RouteWithLlm

SpecRoute == InitRoute /\ [][NextRoute]_vars

\* C11: whatever text the router returned, route_with_llm does not raise
\* and returns an object.
C11_RecoveryNeverRaises ==
  output.op = "route_with_llm"
    => ~output.raised /\ output.parsed.t = "obj"

\* what the claim says the recovery returns for content
Claimed(content) ==
  LET start == find(content, "{")
      end == rfind(content, "}")
      inner == IF start # 0 /\ end > start
               THEN SubSeq(content, start, end) ELSE <<"Sure">>
      got == IF ~LoadsRaises(content) THEN Parsed(json_loads(content), <<>>)
             ELSE IF ~LoadsRaises(inner) THEN Parsed(json_loads(inner), <<>>)
             ELSE Failed
  IN IF got.ok /\ ~(got.v.t = "obj" /\ "tool" \notin DOMAIN got.v.m)
     THEN got.v ELSE Sentinel

\* C12: what route_with_llm returns is the whole text parsed, else the part
\* from the first "{" to the last "}" parsed, and the sentinel when both
\* parses fail or the parsed object has no tool key.
C12_RecoveryResult ==
  (output.op = "route_with_llm" /\ ~output.raised)
    => output.parsed = Claimed(input)

-----------------------------------------------------------------------------
(* next_user_id and handle_list_users on a table that is already filled:   *)
(* rows left by earlier runs, by deletions, or put there from outside.     *)

U007 == <<"U", "0", "0", "7">>
U999 == <<"U", "9", "9", "9">>
U9x == <<"U", "9", "x">>
Ux == <<"U", "x">>
Opaque == <<"a", "b", "c">>

SeedIds == {U001, U002, U007, U999, U9x, Ux, Opaque}

\* one row per id; the id doubles as the (unique) email
SeedRows == {Row(i, <<"a">>, i, <<"r">>, 0) : i \in SeedIds}

InitSeeded ==
  /\ Started
  /\ input \in SUBSET SeedRows
  /\ output = NoOutput
  /\ NoClient

\* next_user_id(cur) on the table input
NextUserId ==
  /\ output = NoOutput
  /\ \E uid \in next_user_id(input) :
       output' = [op |-> "next_user_id", id |-> uid]
  /\ UNCHANGED <<store, pc, req, resp, nread, nasked, nwritten, unclosed,
                 issued, run, input, client>>

\* handle_list_users({}) on the table input
ListUsersSeeded ==
  /\ output = NoOutput
  /\ \E o \in handle_list_users([dict |-> TRUE, f |-> NoFields], input) :
       /\ input' = o.store
       /\ output' = [op |-> "list_users", rows |-> o.resp.result.recs,
                     keys |-> o.resp.keys]
  /\ UNCHANGED <<store, pc, req, resp, nread, nasked, nwritten, unclosed,
                 issued, run, client>>

NextSeeded == NextUserId \/ ListUsersSeeded

SpecSeeded == InitSeeded /\ [][NextSeeded]_vars

\* id is the prefix U followed only by digits
UThenDigits(id) == Len(id) >= 2 /\ id[1] = "U" /\ AllDigits(substr2(id))

\* the numeric parts of the ids of st that have that form
NumericParts(st) == {int(substr2(r.id)) : r \in {x \in st : UThenDigits(x.id)}}

Greatest(ns) == CHOOSE n \in ns : \A k \in ns : k <= n

\* id is U followed by the decimal digits of n in at least three places
IsUserIdOf(id, n) ==
  /\ UThenDigits(id) /\ int(substr2(id)) = n
  /\ Len(id) >= 4
  /\ Len(id) > 4 => id[2] # "0"

\* C13: only the ids of the form U + digits count: the allocator returns
\* U001 when the table has none of them, else the greatest of their numeric
\* parts plus one, whatever other ids the table holds.
C13_OnlyPatternIdsCount ==
  output.op = "next_user_id" =>
    IF NumericParts(input) = {} THEN output.id = U001
    ELSE IsUserIdOf(output.id, Greatest(NumericParts(input)) + 1)

\* C18: on a table whose ids all have the form U + digits the allocator
\* returns U + (greatest numeric part + 1) in three places or more: U001 on
\* the empty table, U008 after U001, U002, U007, and U1000 after U999.
C18_MaxPlusOne ==
  (output.op = "next_user_id" /\ \A r \in input : UThenDigits(r.id)) =>
    /\ input = {} => output.id = <<"U", "0", "0", "1">>
    /\ input # {} =>
         IsUserIdOf(output.id, Greatest(NumericParts(input)) + 1)
    /\ {r.id : r \in input} = {U001, U002, U007}
         => output.id = <<"U", "0", "0", "8">>
    /\ (\E r \in input : r.id = U999)
         => output.id = <<"U", "1", "0", "0", "0">>

\* the allocator has answered U008 on the table of U001, U002, U007
C18_Witness ==
  /\ output.op = "next_user_id"
  /\ {r.id : r \in input} = {U001, U002, U007}
  /\ output.id = <<"U", "0", "0", "8">>

\* C20: list_users returns every row of the table exactly once, in
\* ascending order of the numeric part of the id, and leaves the table as
\* it was.
C20_ListOrdered ==
  [][(output.op = "none" /\ output'.op = "list_users")
     => LET rows == output'.rows
        IN /\ Len(rows) = Cardinality(input)
           /\ {rows[i] : i \in 1..Len(rows)} = input
           /\ \A i, j \in 1..Len(rows) :
                i < j => CastInteger(substr2(rows[i].id))
                           <= CastInteger(substr2(rows[j].id))
           /\ output'.keys = {"result"}
           /\ input' = input]_vars

\* U001 and U002 were listed in that order, with U007 after them
C20_Witness ==
  /\ output.op = "list_users"
  /\ {r.id : r \in input} = {U002, U001, U007}
  /\ output.rows[1].id = U001 /\ output.rows[2].id = U002

-----------------------------------------------------------------------------
(* Properties of the worker, continued *)

\* the argument k is absent, null, or empty after trimming
Missing(k) ==
  \/ Arg(k).t \in {"absent", "null"}
  \/ Arg(k).t = "str" /\ strip(Arg(k).s) = <<>>

\* every argument among ks is text, null or absent
AreText(ks) == \A k \in ks : Arg(k).t \in {"str", "absent", "null"}

\* the request at hand fails the validation of its handler
FailsValidation ==
  /\ req.t = "obj" /\ req.params.t = "obj" /\ req.method.t = "str"
  /\ \/ /\ req.method.name = "add_user"
        /\ AreText({"name", "email", "role"})
        /\ Missing("name") \/ Missing("email") \/ Missing("role")
     \/ /\ req.method.name \in {"get_user", "delete_user"}
        /\ Missing("id")
     \/ /\ req.method.name = "update_user"
        /\ AreText({"id", "name", "email", "role"})
        /\ \/ Missing("id")
           \/ Missing("name") /\ Missing("email") /\ Missing("role")

\* C14: a call that fails validation (a required field absent or empty after
\* trimming, or update_user with nothing to update) gets an error response,
\* the store is unchanged and no identifier is allocated.
C14_ValidationLeavesStore ==
  [][(pc = "dispatch" /\ FailsValidation)
     => (pc' = "read" /\ IsError(resp') /\ nwritten' = nwritten + 1
         /\ store' = store /\ issued' = issued)]_vars

\* update_user with an id and nothing to update was refused on a filled store
C14_Witness ==
  /\ Answered /\ FailsValidation /\ req.method.name = "update_user"
  /\ ~Missing("id") /\ IsError(resp) /\ store # {}

\* C15: a line that does not decode gets exactly one response, with the
\* error key alone (no result, id or method), and the loop is back at the
\* read.
C15_DecodeError ==
  [][(pc = "read" /\ nasked' = nasked + 1 /\ req' = NoRequest)
     => (/\ pc' = "read" /\ nwritten' = nwritten + 1
         /\ resp'.keys = {"error"} /\ resp'.error[1] = "invalid json: "
         /\ store' = store)]_vars

\* after the response to an undecodable line the next line has been read
C15_Witness ==
  /\ pc = "dispatch" /\ nwritten = 1
  /\ resp.keys = {"error"} /\ resp.error[1] = "invalid json: "

\* the request at hand names no registered operation
Unregistered ==
  req.t = "obj"
  /\ ~(req.method.t = "str"
       /\ req.method.name \in {"add_user", "list_users", "get_user",
            "update_user", "delete_user", "list_tools", "send_email", "ping"})

\* C16: a request whose method is not registered gets the error
\* "unknown method: <method>" with its own id and method, and the store is
\* unchanged.
C16_UnknownMethod ==
  [][(pc = "dispatch" /\ Unregistered)
     => (/\ pc' = "read" /\ nwritten' = nwritten + 1
         /\ resp'.keys = {"id", "method", "error"}
         /\ resp'.error = <<"unknown method: ", req.method.name>>
         /\ resp'.id = req.id /\ resp'.method = req.method
         /\ store' = store)]_vars

\* an unregistered method was answered on a filled store
C16_Witness ==
  /\ Answered /\ Unregistered /\ req.method = Method("bogus")
  /\ resp.error = <<"unknown method: ", "bogus">> /\ store # {}

\* C17: the response to a decoded request carries the request's id and
\* method and exactly one of result and error.
C17_ResponseShape ==
  Answered =>
    /\ {"id", "method"} \subseteq resp.keys
    /\ resp.id = req.id /\ resp.method = req.method
    /\ ("result" \in resp.keys) # ("error" \in resp.keys)
    /\ resp.keys \subseteq {"id", "method", "result", "error"}

\* a delete_user with a token was answered with an error under that token
C17_Witness ==
  /\ Answered /\ req.method = Method("delete_user") /\ req.id = Num(1)
  /\ resp.id = Num(1) /\ "error" \in resp.keys

\* C19: a successful add_user returns the record it stored (the allocated
\* id, trimmed name, lowercased trimmed email, trimmed role, created_at),
\* and a get_user with that id right after returns the same record.
C19_AddThenGet ==
  /\ [][(pc = "dispatch" /\ req.t = "obj" /\ req.method = Method("add_user")
         /\ pc' = "read" /\ IsResult(resp'))
        => LET rec == resp'.result.recs[1]
           IN /\ resp'.result.shape = "record"
              /\ rec.id = issued'[Len(issued')] /\ rec.id \notin
                   {r.id : r \in store}
              /\ rec.name = strip(Arg("name").s)
              /\ rec.email = lower(strip(Arg("email").s))
              /\ rec.role = strip(Arg("role").s)
              /\ rec.created_at = nread
              /\ store' = store \cup {rec}]_vars
  /\ [][(pc = "dispatch" /\ req.t = "obj" /\ req.method = Method("get_user")
         /\ resp.method = Method("add_user") /\ IsResult(resp)
         /\ req.params.t = "obj" /\ Arg("id").t = "str"
         /\ strip(Arg("id").s) = resp.result.recs[1].id)
        => (/\ pc' = "read" /\ IsResult(resp')
            /\ resp'.result.shape = "user"
            /\ resp'.result.recs = resp.result.recs)]_vars

\* add_user, then get_user with the id it returned, both answered
C19_Witness ==
  /\ Answered /\ req.method = Method("get_user") /\ nasked = 2
  /\ Len(issued) = 1 /\ IsResult(resp) /\ resp.result.shape = "user"
  /\ resp.result.recs[1].id = issued[1]
  /\ resp.result.recs[1].email = <<"a">>

\* C24: every handler closes the connection it opened before its response
\* is written, on every path: at the top of the loop no connection opened by
\* a handler is still unclosed.
C24_ConnectionsClosed == pc = "read" => unclosed = 0

-----------------------------------------------------------------------------
(* The two places that decide which add_user fields count as given: the    *)
(* form of the client (build_param_form, app.py) and the validation of     *)
(* handle_add_user.  input is the value of each field.                     *)

AddFields == <<"name", "email", "role">>

\* what a field can hold: text from a text widget, 0.0 from a number
\* widget, False from a checkbox; a request line can also leave it out
FieldValues == {Absent, Str(<<>>), Str(<<"a">>), Str(<<" ">>), Num(0),
                Bool(FALSE)}

\* params with the values args for name, email and role
AddParams(args) ==
  [dict |-> TRUE,
   f |-> [k \in Keys |-> IF k \in DOMAIN args THEN args[k] ELSE Absent]]

\* the loop over values after a submit: a str is kept unless it is "",
\* any other value is kept
Clean(values) ==
  [k \in DOMAIN values |->
     IF values[k].t = "str"
     THEN IF values[k].s # <<>> THEN values[k] ELSE Absent
     ELSE values[k]]

InitForm ==
  /\ Started
  /\ input \in [{"name", "email", "role"} -> FieldValues]
  /\ output = NoOutput
  /\ NoClient

\* the add_user form is submitted with a value in every widget
SubmitForm ==
  /\ output = NoOutput
  /\ \A k \in DOMAIN input : input[k] # Absent
  /\ output' = [op |-> "build_param_form", params |-> Clean(input)]
  /\ UNCHANGED <<store, pc, req, resp, nread, nasked, nwritten, unclosed,
                 issued, run, input, client>>

\* the worker handles add_user with input as params, on an empty table
HandleAddUser ==
  /\ output = NoOutput
  /\ \E o \in handle_add_user(AddParams(input), store, nread) :
       output' = [op |-> "handle_add_user", raised |-> o.raised,
                  resp |-> o.resp]
  /\ UNCHANGED <<store, pc, req, resp, nread, nasked, nwritten, unclosed,
                 issued, run, input, client>>

NextForm == SubmitForm \/ HandleAddUser

SpecForm == InitForm /\ [][NextForm]_vars

\* the rule of the claim: a field is provided when it is present and is
\* not the empty string; 0 and false are provided
Provided(v) == v # Absent /\ v # Str(<<>>)

\* for the worker, text that is empty after trimming is not provided
ProvidedTrimmed(v) == Provided(v) /\ ~(v.t = "str" /\ strip(v.s) = <<>>)

missing_required(required_fields, provided_arguments) ==
  SelectSeq(required_fields, LAMBDA k : ~Provided(provided_arguments[k]))

\* C22: one rule decides what counts as missing: the form submits exactly
\* the fields that are provided (0 and false included, "" left out), and
\* handle_add_user answers "name, email and role are required" exactly when
\* a required field is not provided.
C22_OneRule ==
  /\ output.op = "build_param_form"
       => \A k \in DOMAIN input :
            LET missing == missing_required(AddFields, input)
            IN output.params[k] =
                 IF \E i \in DOMAIN missing : missing[i] = k
                 THEN Absent ELSE input[k]
  /\ (output.op = "handle_add_user" /\ ~output.raised)
       => (output.resp.error[1] = "name, email and role are required"
             <=> \E k \in DOMAIN input : ~ProvidedTrimmed(input[k]))

-----------------------------------------------------------------------------
(* The client (app.py) with the worker it started.  A script run is one    *)
(* user event followed by what the script does with it; call_mcp is three  *)
(* steps (poll, write, readline), the worker reads the line, dispatches it *)
(* with the actions of main_loop and can stop at any moment.               *)

\* the str json.loads gives for a quoted token
Unquote(tok) ==
  CASE tok = "'add_user'" -> "add_user" [] tok = "'unknown'" -> "unknown"
    [] tok = "'nope'" -> "nope" [] tok = "'Ann'" -> "Ann"
    [] tok = "'list_users'" -> "list_users"
    [] tok = "'delete_user'" -> "delete_user"

\* bool(v) of a decoded value: the string tokens are not empty, the number
\* token is 1
JTruthy(v) ==
  CASE v.t = "arr" -> v.n > 0
    [] v.t = "obj" -> DOMAIN v.m # {}
    [] OTHER -> TRUE

\* route.get("tool") or "unknown"
ToolValue(r) ==
  IF "tool" \in DOMAIN r.m /\ JTruthy(r.m["tool"]) THEN r.m["tool"]
  ELSE JString("'unknown'")

\* route.get("params") or {}
ParamsSuggested(r) ==
  IF "params" \in DOMAIN r.m /\ JTruthy(r.m["params"]) THEN r.m["params"]
  ELSE JObject(NoMembers)

\* hash(v) raises TypeError for a list and for a dict
Unhashable(v) == v.t \in {"arr", "obj"}

\* v in tl, for a hashable v
InCatalog(v, tl) == v.t = "str" /\ Unquote(v.s) \in tl

ViewTools == {"list_users", "get_user"}

\* the middle pane: what one rendering of it comes to
Middle(st, r, tl) ==
  IF st # "routed" THEN "begin"
  ELSE LET tool_name == ToolValue(r)
       IN IF /\ tool_name.t = "str" /\ Unquote(tool_name.s) \in ViewTools
             /\ ViewTools \cap tl # {}
          THEN "view"
          ELSE IF tool_name = JString("'unknown'") THEN "cannot act"
          ELSE IF Unhashable(tool_name) THEN "raised"
          ELSE IF ~InCatalog(tool_name, tl) THEN "cannot act"
          ELSE IF ParamsSuggested(r).t # "obj" THEN "raised"
          ELSE "form"

\* mcp_proc.poll() is not None
Terminated == pc \in {"crashed", "eof", "killed"}

\* a response call_mcp makes up itself
ChannelError(msg) ==
  [keys |-> {"error"}, id |-> Absent, method |-> NoMethod,
   error |-> <<msg, "">>, result |-> NoResult]

\* fetch_tools from the response on
Discovered(r) ==
  IF "error" \in r.keys THEN {}
  ELSE {r.result.recs[i].name : i \in DOMAIN r.result.recs}

\* call_mcp is entered: the payload is built
Call(method, params, who) ==
  /\ cpc = "idle" /\ nsent < MaxRequests
  /\ cpc' = "poll"
  /\ caller' = who
  /\ payload' = Message(Str(<<"t">>), Method(method), Object(params))
  /\ UNCHANGED <<store, pc, req, resp, nread, nasked, nwritten, unclosed,
                 issued, run, input, output, tools, stage, route, nsent,
                 ngot>>

\* call_mcp returns r and the script run goes on to its end
Return(r) ==
  /\ cpc' = "idle"
  /\ last' = r
  /\ tools' = IF caller \in {"startup", "fetch_tools"} THEN Discovered(r)
              ELSE tools
  /\ IF caller = "fetch_tools" /\ ~route_with_llm(reply).raised
     THEN route' = route_with_llm(reply).parsed /\ stage' = "routed"
     ELSE UNCHANGED <<route, stage>>
  /\ UNCHANGED <<store, pc, req, resp, nread, nasked, nwritten, unclosed,
                 issued, run, input, output, caller, payload, reply, nsent>>

\* line 100-103
CallPoll ==
  /\ cpc = "poll"
  /\ IF Terminated
     THEN Return(ChannelError("MCP server not running")) /\ UNCHANGED ngot
     ELSE /\ cpc' = "write"
          /\ UNCHANGED <<store, pc, req, resp, nread, nasked, nwritten,
                         unclosed, issued, run, input, output, caller,
                         payload, reply, tools, stage, route, nsent, ngot,
                         last>>

\* line 104-110: writing to the pipe of a process that is gone raises
CallWrite ==
  /\ cpc = "write"
  /\ IF Terminated
     THEN Return(ChannelError("failed to write to MCP stdin: "))
          /\ UNCHANGED ngot
     ELSE /\ cpc' = "readline"
          /\ nsent' = nsent + 1
          /\ UNCHANGED <<store, pc, req, resp, nread, nasked, nwritten,
                         unclosed, issued, run, input, output, caller,
                         payload, reply, tools, stage, route, ngot, last>>

\* mutant: an empty read is taken as "nothing yet" and the read is repeated
CallReadLine_Waits ==
  /\ cpc = "readline"
  /\ nwritten > ngot
  /\ ngot' = ngot + 1
  /\ Return(resp)

\* line 111-124: readline gives the next line, or "" once the worker is
\* gone and nothing is left in the pipe; it waits otherwise
CallReadLine ==
  /\ cpc = "readline"
  /\ IF nwritten > ngot
     THEN ngot' = ngot + 1 /\ Return(resp)
     ELSE /\ Terminated
          /\ Return(ChannelError("No response from MCP server"))
          /\ UNCHANGED ngot

\* the values of the widgets of a form
FormTexts == {Str(<<>>), Str(U001)}
FormValues(name) ==
  CASE name = "add_user" ->
         {Fields(Absent, n, e, r) : n \in FormTexts, e \in FormTexts,
                                    r \in FormTexts}
    [] name = "delete_user" ->
         {Fields(i, Absent, Absent, Absent) : i \in FormTexts}
    [] OTHER -> {}

\* replies of the router in a chat
ChatReplies ==
  {Proposal,
   <<"{", "tool:", "'delete_user'", "}">>,
   <<"{", "tool:", "'list_users'", ",", "params:", "{", "}", "}">>,
   <<"{", "tool:", "'add_user'", ",", "params:", "'Ann'", "}">>,
   <<"{", "tool:", "'nope'", ",", "params:", "{", "}", "}">>,
   <<"{", "tool:", "'unknown'", ",", "params:", "{", "}", "}">>,
   <<"{", "tool:", "1", "}">>,
   <<"{", "tool:", "[", "]", "}">>,
   <<"{", "tool:", "[", "'add_user'", "]", "}">>,
   <<"{", "tool:", "{", "name:", "'add_user'", "}", "}">>,
   <<"{", "params:", "{", "}", "}">>,
   <<"Sure", "{", "tool:", "'add_user'", "}">>,
   <<"[", "]">>,
   <<"Sure">>}

\* the first script run: start_mcp_server, then fetch_tools is in call_mcp
InitClient ==
  /\ Started
  /\ input = <<>>
  /\ output = NoOutput
  /\ cpc = "poll"
  /\ caller = "startup"
  /\ payload = Message(Str(<<"t">>), Method("list_tools"), Object(NoFields))
  /\ reply = <<>>
  /\ tools = {}
  /\ stage = "none"
  /\ route = <<>>
  /\ nsent = 0
  /\ ngot = 0
  /\ last = <<>>

\* the chat form is submitted with a request: debug_reset, fetch_tools,
\* then the router
ChatSubmit ==
  \E content \in ChatReplies :
    /\ reply' = content
    /\ last' = <<>>
    /\ Call("list_tools", NoFields, "fetch_tools")

\* the parameter form on display is submitted
FormSubmit ==
  /\ Middle(stage, route, tools) = "form"
  /\ \E values \in FormValues(Unquote(ToolValue(route).s)) :
       Call(Unquote(ToolValue(route).s), Clean(values), "form")
  /\ UNCHANGED <<reply, last>>

\* "Show All" in the view pane
ShowAll ==
  /\ Middle(stage, route, tools) = "view"
  /\ "list_users" \in tools
  /\ Call("list_users", NoFields, "show_all")
  /\ UNCHANGED <<reply, last>>

\* "Show" in the view pane with a user id typed in
ShowSingle ==
  /\ Middle(stage, route, tools) = "view"
  /\ "get_user" \in tools
  /\ \E uid \in {U001, <<" ">> \o U002} :
       Call("get_user", Fields(Str(strip(uid)), Absent, Absent, Absent),
            "show_single")
  /\ UNCHANGED <<reply, last>>

\* the worker reads the line the client wrote
ReadFromClient ==
  /\ pc = "read" /\ nsent > nread
  /\ req' = payload
  /\ nread' = nread + 1
  /\ nasked' = nasked + 1
  /\ pc' = "dispatch"
  /\ UNCHANGED <<store, resp, nwritten, unclosed, issued, run, input, output,
                 client>>

\* the worker process ends while the client is running
WorkerStops ==
  /\ pc \in {"read", "dispatch"}
  /\ pc' = "killed"
  /\ UNCHANGED <<store, req, resp, nread, nasked, nwritten, unclosed, issued,
                 run, input, output, client>>

NextClient ==
  \/ ChatSubmit \/ FormSubmit \/ ShowAll \/ ShowSingle
  \/ CallPoll \/ CallWrite \/ CallReadLine
  \/ ReadFromClient \/ WorkerStops
  \/ ListTools \/ AddUser \/ DeleteUser \/ ListUsers \/ GetUser

SpecClient == InitClient /\ [][NextClient]_vars

\* the proposal's tool is absent, is "unknown", or names no catalog entry
Unusable ==
  /\ stage = "routed"
  /\ \/ "tool" \notin DOMAIN route.m
     \/ route.m["tool"] = JString("'unknown'")
     \/ ~(route.m["tool"].t = "str" /\ Unquote(route.m["tool"].s) \in tools)

\* a script run enters call_mcp for an operation (not for the discovery)
CallsOperation == cpc = "idle" /\ cpc' = "poll" /\ caller' # "fetch_tools"

\* C21: a proposal whose tool is absent, is "unknown" or names no catalog
\* entry is shown as "cannot act" and no script run calls the worker for
\* it; whatever the client calls is in the discovered catalog.
C21_OnlyCatalogCalls ==
  /\ [](Unusable => Middle(stage, route, tools) = "cannot act")
  /\ [][CallsOperation
          => (~Unusable /\ payload'.method.name \in tools)]_vars

\* call_mcp is under way, the worker is gone and no line is left to read
WorkerGone ==
  cpc \in {"poll", "write", "readline"} /\ Terminated /\ nwritten = ngot

\* C23: with the worker terminated (before the call, or after the write and
\* before a response line), call_mcp does not wait: its next step is
\* possible, returns an error response to the caller, and the script run
\* ends as usual with nothing written to the worker.
C23_TerminatedWorker ==
  /\ [](WorkerGone => ENABLED (CallPoll \/ CallWrite \/ CallReadLine))
  /\ [][(WorkerGone /\ cpc' # cpc)
          => (/\ cpc' = "idle"
              /\ last'.keys = {"error"}
              /\ last'.error[1] \in {"MCP server not running",
                                     "failed to write to MCP stdin: ",
                                     "No response from MCP server"}
              /\ nsent' = nsent /\ ngot' = ngot)]_vars

\* the request was written, the worker stopped before answering, and
\* call_mcp has returned "No response from MCP server"
C23_Witness ==
  /\ cpc = "idle" /\ Terminated /\ nsent = 2 /\ ngot = 1
  /\ last = ChannelError("No response from MCP server")

====
